---- MODULE Spec2Model ----
(***************************************************************************)
(* neocuviz: the cube rotation engine (neocuviz/src/cube.rs), the move     *)
(* notation parser (src/notation.rs) and the command-line driver           *)
(* (ncv-cli/src/main.rs).                                                  *)
(*                                                                         *)
(* Encoding.  A face grid Box<[CubeFace]> is a function 0..N*N-1 ->        *)
(* CubeFace (row-major, as indexed by the code).  A strip (an extracted    *)
(* row or column) is a sequence.  A usize that the code computes as        *)
(* `divisions - 1 - i` is kept as an integer: a negative value stands for  *)
(* the wrapped value 2^64 + v of a build without overflow checks; a build  *)
(* with overflow checks panics at the subtraction itself.  Both builds     *)
(* abort the call at that point with the same grids, see TurnLayers.       *)
(***************************************************************************)
EXTENDS Integers, Sequences, FiniteSets, TLC

VARIABLES
    cube_size,      \* the size the caller asked for (args.cube_size)
    cube,           \* the Cube: [divisions, face_transform, faces]
    outcome,        \* what the last call of Cube::apply did: <<"None">> (no call yet), <<"Ok">>,
                    \* <<"UndefinedMovement", m>> or <<"Panic">>
    movement,       \* the argument of the last call of Cube::apply
    before,         \* the Cube as it was when the last call of Cube::apply began
    start,          \* the Cube when the caller began recording its movements
    done,           \* the movements applied since then, in order
    queue,          \* the movements the caller still has to apply
    pc,             \* where the caller is
    steps,          \* number of movements the caller has chosen so far
    source,         \* the notation text handed to Movements::new
    rest_notation,  \* Movements.rest_notation: the characters not yet consumed
    yielded,        \* what the calls of Movements::next returned so far, in order
    movements,      \* main's vector of parsed movements
    args_invert     \* args.invert

(* The variables of the notation side of the program.                      *)
notation == <<source, rest_notation, yielded, movements, args_invert>>

vars == <<cube_size, cube, outcome, movement, before, start, done, queue, pc, steps,
          source, rest_notation, yielded, movements, args_invert>>

---------------------------------------------------------------------------
(* Bounds of the model.                                                    *)

MaxDivisions == 4
MaxMoves == 2

(* The deepest face turn the notation can express: `w` or a lowercase      *)
(* letter gives 2 layers.                                                  *)
MaxLayers == 2

---------------------------------------------------------------------------
(* notation.rs: Face, Rotation, Movement.                                  *)

CubeFace == {"Front", "Back", "Left", "Right", "Up", "Down"}

Rotation == {"Clockwise", "Counterclockwise", "Turnover"}

SliceFace == {<<"Standing">>, <<"Middle">>, <<"Equational">>}

AxisFace == {<<"X">>, <<"Y">>, <<"Z">>}

LayeredFace(ls) == {<<f, l>> : f \in CubeFace, l \in ls}

(* Face: a face with its number of layers, a slice, or an axis.            *)
Face == LayeredFace(1..MaxLayers) \cup SliceFace \cup AxisFace

Movement == [target : Face, direction : Rotation]

Mv(t, d) == [target |-> t, direction |-> d]

---------------------------------------------------------------------------
(* cube.rs: Cube::new.                                                     *)

Cells(d) == 0..(d * d - 1)

(* The table of the turn the other way: x2 = divisions - y1 - 1 and        *)
(* y2 = x1.                                                                *)
FaceTransformForward(d) ==
    [i \in Cells(d) |->
        LET x1 == i % d
            y1 == i \div d
            x2 == d - y1 - 1
            y2 == x1
        IN  y2 * d + x2]

(* The table of the transposition: x2 = y1 and y2 = x1.                    *)
FaceTransformTransposed(d) ==
    [i \in Cells(d) |->
        LET x1 == i % d
            y1 == i \div d
            x2 == y1
            y2 == x1
        IN  y2 * d + x2]

FaceTransform(d) ==
    [i \in Cells(d) |->
        LET x1 == i % d
            y1 == i \div d
            x2 == y1
            y2 == d - x1 - 1
        IN  y2 * d + x2]

(* MakeFace that ignores the face it is given.                             *)
MakeFaceFront(d, f) == [i \in Cells(d) |-> "Front"]

MakeFace(d, f) == [i \in Cells(d) |-> f]

New(d) ==
    [divisions |-> d,
     face_transform |-> FaceTransform(d),
     faces |-> [f \in CubeFace |-> MakeFace(d, f)]]

---------------------------------------------------------------------------
(* cube.rs: the private helpers of Cube.  A helper that mutates takes and  *)
(* returns a run [self, panic]: the Cube, and whether the call has         *)
(* panicked (after which nothing more is executed).                        *)

(* The reversal that repeats the last entry of the strip.                  *)
ReverseSmeared(s) == [k \in 1..Len(s) |-> s[Len(s)]]

Reverse(s) == [k \in 1..Len(s) |-> s[Len(s) + 1 - k]]

(* iter().skip(row * divisions).take(divisions): the divisions entries of  *)
(* a row of the grid; nothing is left to take when the row is not one.     *)
ExtractRow(self, face, row) ==
    LET d == self.divisions
        g == self.faces[face]
        n == IF row \in 0..(d - 1) THEN d ELSE 0
    IN  [k \in 1..n |-> g[row * d + (k - 1)]]

(* iter().enumerate().filter_map(i % divisions == column): the entries at  *)
(* column, column + divisions, ...; no index has a remainder >= divisions. *)
ExtractColumn(self, face, column) ==
    LET d == self.divisions
        g == self.faces[face]
        n == IF column \in 0..(d - 1) THEN d ELSE 0
    IN  [k \in 1..n |-> g[column + d * (k - 1)]]

(* for (i, &v) in values.enumerate() { face[first + stride * i] = v }: an  *)
(* index out of the grid panics after the writes before it.                *)
RECURSIVE Write(_, _, _, _, _)
Write(g, vs, first, stride, i) ==
    IF i >= Len(vs) THEN [face |-> g, panic |-> FALSE]
    ELSE IF first + stride * i \notin DOMAIN g THEN [face |-> g, panic |-> TRUE]
    ELSE Write([g EXCEPT ![first + stride * i] = vs[i + 1]], vs, first, stride, i + 1)

(* A hand [run, popped] is a run with the strip the last extraction or     *)
(* swap returned: the `values` of the swap that follows it in a turn.      *)
TakeRow(run, face, row) ==
    [run |-> run, popped |-> ExtractRow(run.self, face, row)]

TakeColumn(run, face, column) ==
    [run |-> run, popped |-> ExtractColumn(run.self, face, column)]

Written(run, target_face, w, popped) ==
    [run |-> [self |-> [run.self EXCEPT !.faces[target_face] = w.face],
              panic |-> w.panic],
     popped |-> popped]

(* The body of swap_to_row and swap_to_column after the extraction:        *)
(* assert_eq!(values.len(), self.divisions), then the writes.              *)
Store(run, target_face, values, invert, first, stride, popped) ==
    IF run.panic
    THEN [run |-> run, popped |-> <<>>]
    ELSE IF Len(values) # run.self.divisions
    THEN [run |-> [run EXCEPT !.panic = TRUE], popped |-> <<>>]
    ELSE Written(run, target_face,
                 Write(run.self.faces[target_face],
                       IF invert THEN Reverse(values) ELSE values, first, stride, 0),
                 popped)

(* swap_to_row(target_face, target_row, &hand.popped, invert)              *)
SwapToRow(hand, target_face, target_row, invert) ==
    Store(hand.run, target_face, hand.popped, invert,
          target_row * hand.run.self.divisions, 1,
          ExtractRow(hand.run.self, target_face, target_row))

(* swap_to_column(target_face, target_column, &hand.popped, invert)        *)
SwapToColumn(hand, target_face, target_column, invert) ==
    Store(hand.run, target_face, hand.popped, invert,
          target_column, hand.run.self.divisions,
          ExtractColumn(hand.run.self, target_face, target_column))

(* A pass that loses the first cell of the grid.                           *)
TurnGridShort(self, g) ==
    [i \in DOMAIN self.face_transform \ {0} |-> g[self.face_transform[i]]]

(* One pass of the loop of turn_face.                                      *)
TurnGrid(self, g) == [i \in DOMAIN self.face_transform |-> g[self.face_transform[i]]]

RECURSIVE TurnGridTimes(_, _, _)
TurnGridTimes(self, g, count) ==
    IF count = 0 THEN g ELSE TurnGridTimes(self, TurnGrid(self, g), count - 1)

TurnFace(run, face, count) ==
    IF run.panic THEN run
    ELSE [run EXCEPT !.self.faces[face] = TurnGridTimes(run.self, run.self.faces[face], count)]

(* The same cycle with no strip reversed on its way through Back.          *)
StepLayerXStraight(run, column_front) ==
    SwapToColumn(
        SwapToColumn(
            SwapToColumn(
                SwapToColumn(TakeColumn(run, "Front", column_front),
                             "Up", column_front, FALSE),
                "Back", run.self.divisions - 1 - column_front, FALSE),
            "Down", column_front, FALSE),
        "Front", column_front, FALSE).run

(* The cycle run the other way round: Front -> Down -> Back -> Up ->       *)
(* Front.                                                                  *)
StepLayerXBackwards(run, column_front) ==
    SwapToColumn(
        SwapToColumn(
            SwapToColumn(
                SwapToColumn(TakeColumn(run, "Front", column_front),
                             "Down", column_front, FALSE),
                "Back", run.self.divisions - 1 - column_front, TRUE),
            "Up", column_front, TRUE),
        "Front", column_front, FALSE).run

(* One pass of the loop of turn_layer_x: Front -> Up -> Back -> Down ->    *)
(* Front, each swap taking what the one before it popped.                  *)
StepLayerX(run, column_front) ==
    SwapToColumn(
        SwapToColumn(
            SwapToColumn(
                SwapToColumn(TakeColumn(run, "Front", column_front),
                             "Up", column_front, FALSE),
                "Back", run.self.divisions - 1 - column_front, TRUE),
            "Down", column_front, TRUE),
        "Front", column_front, FALSE).run

(* One pass of the loop of turn_layer_y: Right -> Front -> Left -> Back -> *)
(* Right.                                                                  *)
StepLayerY(run, row_right) ==
    SwapToRow(
        SwapToRow(
            SwapToRow(
                SwapToRow(TakeRow(run, "Right", row_right),
                          "Front", row_right, FALSE),
                "Left", row_right, FALSE),
            "Back", row_right, FALSE),
        "Right", row_right, FALSE).run

(* StepLayerZ writing the last strip back to Up without reversing it.      *)
StepLayerZStraight(run, row_up) ==
    SwapToRow(
        SwapToColumn(
            SwapToRow(
                SwapToColumn(TakeRow(run, "Up", row_up),
                             "Right", run.self.divisions - 1 - row_up, FALSE),
                "Down", run.self.divisions - 1 - row_up, TRUE),
            "Left", row_up, FALSE),
        "Up", row_up, FALSE).run

(* One pass of the loop of turn_layer_z: Up -> Right -> Down -> Left ->    *)
(* Up.                                                                     *)
StepLayerZ(run, row_up) ==
    SwapToRow(
        SwapToColumn(
            SwapToRow(
                SwapToColumn(TakeRow(run, "Up", row_up),
                             "Right", run.self.divisions - 1 - row_up, FALSE),
                "Down", run.self.divisions - 1 - row_up, TRUE),
            "Left", row_up, FALSE),
        "Up", row_up, TRUE).run

StepLayer(run, axis, index) ==
    IF run.panic THEN run
    ELSE CASE axis = "X" -> StepLayerX(run, index)
           [] axis = "Y" -> StepLayerY(run, index)
           [] axis = "Z" -> StepLayerZ(run, index)

(* TurnLayer making one pass whatever the count.                           *)
TurnLayerOnce(run, axis, index, count) == StepLayer(run, axis, index)

(* turn_layer_x, turn_layer_y, turn_layer_z: `count` passes; a pass that   *)
(* panics ends the loop.                                                   *)
RECURSIVE TurnLayer(_, _, _, _)
TurnLayer(run, axis, index, count) ==
    IF count = 0 \/ run.panic THEN run
    ELSE TurnLayer(StepLayer(run, axis, index), axis, index, count - 1)

(* for i in 0..l { self.turn_layer_*(index, count) } with the index        *)
(* `i` (near = TRUE) or `self.divisions - 1 - i` (near = FALSE).           *)
(* The loop over the layers that stops one layer early.                    *)
RECURSIVE TurnLayersButLast(_, _, _, _, _, _)
TurnLayersButLast(run, axis, near, i, l, count) ==
    IF i >= l - 1 \/ run.panic THEN run
    ELSE TurnLayersButLast(
             TurnLayer(run, axis, IF near THEN i ELSE run.self.divisions - 1 - i, count),
             axis, near, i + 1, l, count)

(* The loop over the layers that turns one layer more.                     *)
RECURSIVE TurnLayersOneMore(_, _, _, _, _, _)
TurnLayersOneMore(run, axis, near, i, l, count) ==
    IF i >= l + 1 \/ run.panic THEN run
    ELSE TurnLayersOneMore(
             TurnLayer(run, axis, IF near THEN i ELSE run.self.divisions - 1 - i, count),
             axis, near, i + 1, l, count)

RECURSIVE TurnLayers(_, _, _, _, _, _)
TurnLayers(run, axis, near, i, l, count) ==
    IF i >= l \/ run.panic THEN run
    ELSE TurnLayers(TurnLayer(run, axis,
                              IF near THEN i ELSE run.self.divisions - 1 - i, count),
                    axis, near, i + 1, l, count)

---------------------------------------------------------------------------
(* cube.rs: Cube::apply.                                                   *)

(* RotationCount taking a counterclockwise turn for a clockwise one.       *)
RotationCountSlip(direction) ==
    CASE direction = "Clockwise" -> 1
      [] direction = "Turnover" -> 2
      [] direction = "Counterclockwise" -> 1

(* The count with a half turn taken for a quarter turn.                    *)
RotationCountQuarter(direction) ==
    CASE direction = "Clockwise" -> 1
      [] direction = "Turnover" -> 1
      [] direction = "Counterclockwise" -> 3

RotationCount(direction) ==
    CASE direction = "Clockwise" -> 1
      [] direction = "Turnover" -> 2
      [] direction = "Counterclockwise" -> 3

(* The arms of the match of apply that turn the cube.                      *)
Turn(run, target, count) ==
    LET d == run.self.divisions
        t == target[1]
    IN  CASE t = "Front" ->
               TurnLayers(TurnFace(run, "Front", count), "Z", FALSE, 0, target[2], count)
          [] t = "Back" ->
               TurnLayers(TurnFace(run, "Back", count), "Z", TRUE, 0, target[2], 4 - count)
          [] t = "Left" ->
               TurnLayers(TurnFace(run, "Left", count), "X", TRUE, 0, target[2], 4 - count)
          [] t = "Right" ->
               TurnLayers(TurnFace(run, "Right", count), "X", FALSE, 0, target[2], count)
          [] t = "Up" ->
               TurnLayers(TurnFace(run, "Up", count), "Y", TRUE, 0, target[2], count)
          [] t = "Down" ->
               TurnLayers(TurnFace(run, "Down", count), "Y", FALSE, 0, target[2], 4 - count)
          [] t = "Standing" -> TurnLayer(run, "Z", 1, count)
          [] t = "Middle" -> TurnLayer(run, "X", 1, 4 - count)
          [] t = "Equational" -> TurnLayer(run, "Y", 1, count)
          [] t = "X" ->
               TurnLayers(TurnFace(TurnFace(run, "Right", count), "Left", 4 - count),
                          "X", TRUE, 0, d, count)
          [] t = "Y" ->
               TurnLayers(TurnFace(TurnFace(run, "Up", count), "Down", 4 - count),
                          "Y", TRUE, 0, d, count)
          [] t = "Z" ->
               TurnLayers(TurnFace(TurnFace(run, "Front", count), "Back", 4 - count),
                          "Z", TRUE, 0, d, count)

(* Undefined refusing the slices on even sizes only.                       *)
UndefinedOnEven(self, m) == m.target \in SliceFace /\ self.divisions % 2 = 0

(* if self.divisions != 3 { return Err(UndefinedMovement(movement)) }      *)
Undefined(self, m) == m.target \in SliceFace /\ self.divisions # 3

(* Ok(()) at the end of apply, unless the call panicked on the way.         *)
Returned(run) ==
    [self |-> run.self, result |-> IF run.panic THEN <<"Panic">> ELSE <<"Ok">>]

(* apply: the Cube it leaves and what the call did.                        *)
Apply(self, m) ==
    IF Undefined(self, m)
    THEN [self |-> self, result |-> <<"UndefinedMovement", m>>]
    ELSE Returned(Turn([self |-> self, panic |-> FALSE], m.target, RotationCount(m.direction)))

---------------------------------------------------------------------------
(* notation.rs: Movements, the parser of the move notation.  A character   *)
(* is a string of length one and rest_notation is the sequence of the      *)
(* characters not yet consumed; peek() is Head, next() is Head and Tail.   *)

(* char::is_whitespace, on the characters of the model.                    *)
Whitespace == {" ", "\n"}

(* The letters of the three arms of the match on the first character.      *)
UpperLetters == {"F", "S", "B", "L", "M", "R", "U", "E", "D"}
LowerLetters == {"f", "b", "l", "r", "u", "d"}
AxisLetters == {"x", "y", "z"}

(* The characters of the model: the letters, the marker, the suffixes,     *)
(* whitespace and three more characters that no arm matches.               *)
Chars ==
    UpperLetters \cup LowerLetters \cup AxisLetters \cup Whitespace
        \cup {"w", "2", "'", "Q", "X", "m"}

(* The conversion left out: the letter stays as it was read.               *)
ToAsciiUppercaseKeep(c) == c

(* char::to_ascii_uppercase, on the characters of the model.               *)
ToAsciiUppercase(c) ==
    CASE c = "f" -> "F"
      [] c = "b" -> "B"
      [] c = "l" -> "L"
      [] c = "r" -> "R"
      [] c = "u" -> "U"
      [] c = "d" -> "D"
      [] c = "x" -> "X"
      [] c = "y" -> "Y"
      [] c = "z" -> "Z"
      [] c = "w" -> "W"
      [] c = "m" -> "M"
      [] OTHER -> c

(* The skip that stops after one character.                                *)
SkipWhitespacesOnce(rest) ==
    IF rest # <<>> /\ Head(rest) \in Whitespace THEN Tail(rest) ELSE rest

RECURSIVE SkipWhitespaces(_)
SkipWhitespaces(rest) ==
    IF rest # <<>> /\ Head(rest) \in Whitespace
    THEN SkipWhitespaces(Tail(rest))
    ELSE rest

(* rest_notation.peek() == Some(c)                                         *)
PeekIs(rest, c) == rest # <<>> /\ Head(rest) = c

(* The match on `face` that builds the target; its last arm is             *)
(* unreachable!().                                                         *)
Target(face, layers) ==
    CASE face = "x" -> <<"X">>
      [] face = "y" -> <<"Y">>
      [] face = "z" -> <<"Z">>
      [] face = "F" -> <<"Front", layers>>
      [] face = "S" -> <<"Standing">>
      [] face = "B" -> <<"Back", layers>>
      [] face = "L" -> <<"Left", layers>>
      [] face = "M" -> <<"Middle">>
      [] face = "R" -> <<"Right", layers>>
      [] face = "U" -> <<"Up", layers>>
      [] face = "E" -> <<"Equational">>
      [] face = "D" -> <<"Down", layers>>
      [] OTHER -> <<"Unreachable">>

(* What one call of next() hands back: the item and the characters left.   *)
Item(item, rest) == [item |-> item, rest |-> rest]

(* The direction suffix read with 2 and the apostrophe exchanged.          *)
ReadDirectionSwapped(face, layers, rest) ==
    IF PeekIs(rest, "'")
    THEN Item(<<"Ok", Mv(Target(face, layers), "Turnover")>>, Tail(rest))
    ELSE IF PeekIs(rest, "2")
    THEN Item(<<"Ok", Mv(Target(face, layers), "Counterclockwise")>>, Tail(rest))
    ELSE Item(<<"Ok", Mv(Target(face, layers), "Clockwise")>>, rest)

(* The direction suffix read with a second suffix character dropped       *)
(* after the first.                                                        *)
ReadDirectionTwice(face, layers, rest) ==
    IF PeekIs(rest, "2") \/ PeekIs(rest, "'")
    THEN Item(<<"Ok", Mv(Target(face, layers),
                         IF PeekIs(rest, "2") THEN "Turnover" ELSE "Counterclockwise")>>,
              IF PeekIs(Tail(rest), "2") \/ PeekIs(Tail(rest), "'")
              THEN Tail(Tail(rest)) ELSE Tail(rest))
    ELSE Item(<<"Ok", Mv(Target(face, layers), "Clockwise")>>, rest)

(* The direction suffix; `rest` begins after the whitespace skipped.       *)
ReadDirection(face, layers, rest) ==
    IF PeekIs(rest, "2")
    THEN Item(<<"Ok", Mv(Target(face, layers), "Turnover")>>, Tail(rest))
    ELSE IF PeekIs(rest, "'")
    THEN Item(<<"Ok", Mv(Target(face, layers), "Counterclockwise")>>, Tail(rest))
    ELSE Item(<<"Ok", Mv(Target(face, layers), "Clockwise")>>, rest)

(* The `w` of a two-layer turn, looked for when layers == 1; `rest`        *)
(* begins after the whitespace skipped.                                    *)
ReadLayers(face, layers, rest) ==
    IF layers # 1
    THEN ReadDirection(face, layers, SkipWhitespaces(rest))
    ELSE IF PeekIs(SkipWhitespaces(rest), "w")
    THEN ReadDirection(face, MaxLayers, SkipWhitespaces(Tail(SkipWhitespaces(rest))))
    ELSE ReadDirection(face, 1, SkipWhitespaces(rest))

(* The match on the first character with one more arm: an uppercase X is   *)
(* read as the axis x.                                                     *)
ReadFaceAnyCase(face, rest) ==
    IF face \in UpperLetters THEN ReadLayers(face, 1, rest)
    ELSE IF face \in LowerLetters THEN ReadLayers(ToAsciiUppercase(face), MaxLayers, rest)
    ELSE IF face \in AxisLetters THEN ReadLayers(face, 0, rest)
    ELSE IF face = "X" THEN ReadLayers("x", 0, rest)
    ELSE Item(<<"Err", <<"InvalidFace", face>>>>, rest)

(* The match on the first character with an error arm that also drops the  *)
(* character after the one it reports.                                     *)
ReadFaceGreedy(face, rest) ==
    IF face \in UpperLetters THEN ReadLayers(face, 1, rest)
    ELSE IF face \in LowerLetters THEN ReadLayers(ToAsciiUppercase(face), MaxLayers, rest)
    ELSE IF face \in AxisLetters THEN ReadLayers(face, 0, rest)
    ELSE Item(<<"Err", <<"InvalidFace", face>>>>, IF rest = <<>> THEN rest ELSE Tail(rest))

(* The match on the first character.                                       *)
ReadFace(face, rest) ==
    IF face \in UpperLetters THEN ReadLayers(face, 1, rest)
    ELSE IF face \in LowerLetters THEN ReadLayers(ToAsciiUppercase(face), MaxLayers, rest)
    ELSE IF face \in AxisLetters THEN ReadLayers(face, 0, rest)
    ELSE Item(<<"Err", <<"InvalidFace", face>>>>, rest)

(* The first character looked at and left in the text.                     *)
ReadItemPeek(rest) ==
    IF rest = <<>> THEN Item(<<"None">>, rest) ELSE ReadFace(Head(rest), rest)

ReadItem(rest) ==
    IF rest = <<>> THEN Item(<<"None">>, rest) ELSE ReadFace(Head(rest), Tail(rest))

(* Movements::next                                                         *)
NextItem(rest) == ReadItem(SkipWhitespaces(rest))

(* What pulling to the end yields from the text `rest`: every item up to   *)
(* and with the first None.                                                *)
RECURSIVE ItemsOf(_)
ItemsAfter(r) ==
    IF r.item[1] = "None" THEN <<r.item>> ELSE <<r.item>> \o ItemsOf(r.rest)

ItemsOf(rest) == ItemsAfter(NextItem(rest))

---------------------------------------------------------------------------
(* Movement::inverse and Movement::inverse_sequence, which main.rs calls.  *)

InverseRotation(direction) ==
    CASE direction = "Clockwise" -> "Counterclockwise"
      [] direction = "Counterclockwise" -> "Clockwise"
      [] direction = "Turnover" -> "Turnover"

inverse(m) == [target |-> m.target, direction |-> InverseRotation(m.direction)]

inverse_sequence(ms) == [k \in 1..Len(ms) |-> inverse(ms[Len(ms) + 1 - k])]

---------------------------------------------------------------------------
(* A caller of the engine: it constructs a Cube of some size and applies   *)
(* movements to it one after the other.  A panic of apply ends the run.    *)

NoMovement == [target |-> <<"None">>, direction |-> "None"]

(* The movements the notation can express.                                 *)
Moves == Movement

After(result, next) == IF result = <<"Panic">> THEN "aborted" ELSE next

(* let mut cube = Cube::new(d)                                             *)
Construct(d) ==
    /\ cube_size = d
    /\ cube = New(d)
    /\ outcome = <<"None">>
    /\ movement = NoMovement
    /\ before = cube
    /\ start = cube
    /\ done = <<>>
    /\ queue = <<>>
    /\ steps = 0

(* A caller that reads no notation.                                        *)
NoNotation ==
    /\ source = <<>>
    /\ rest_notation = <<>>
    /\ yielded = <<>>
    /\ movements = <<>>
    /\ args_invert = FALSE

Init ==
    /\ \E d \in 1..MaxDivisions : Construct(d)
    /\ NoNotation
    /\ pc = "ready"

(* One call cube.apply(m), with what the caller keeps of it.               *)
Called(r, m) ==
    /\ cube' = r.self
    /\ outcome' = r.result
    /\ movement' = m
    /\ before' = cube

Call(m) == Called(Apply(cube, m), m)

ApplyMove(m) ==
    /\ pc = "ready"
    /\ steps < MaxMoves
    /\ Call(m)
    /\ steps' = steps + 1
    /\ pc' = After(outcome', "ready")
    /\ UNCHANGED <<notation, cube_size, start, done, queue>>

Next == \E m \in Moves : ApplyMove(m)

Spec == Init /\ [][Next]_vars

---------------------------------------------------------------------------
(* A caller that takes its movements back.  It brings the Cube to some     *)
(* state with a few quarter turns, then records the movements it applies   *)
(* and replays inverse_sequence of the record, as main.rs does for -i.     *)

(* Clockwise quarter turns of the six faces and the three slices.          *)
ScrambleMoves ==
    {Mv(t, "Clockwise") : t \in LayeredFace({1}) \cup SliceFace}

InitUndo ==
    /\ \E d \in 1..MaxDivisions : Construct(d)
    /\ NoNotation
    /\ pc = "scramble"

Scramble(m) ==
    /\ pc = "scramble"
    /\ steps < MaxMoves
    /\ Call(m)
    /\ start' = cube'
    /\ steps' = steps + 1
    /\ pc' = After(outcome', "scramble")
    /\ UNCHANGED <<notation, cube_size, done, queue>>

Forward(m) ==
    /\ pc \in {"scramble", "forward"}
    /\ steps < MaxMoves
    /\ Call(m)
    /\ done' = Append(done, m)
    /\ steps' = steps + 1
    /\ pc' = After(outcome', "forward")
    /\ UNCHANGED <<notation, cube_size, start, queue>>

(* The caller repeats the one movement it has recorded, up to a full turn. *)
Repeat ==
    /\ \/ pc = "forward" /\ Len(done) = 1
       \/ pc = "repeat" /\ Len(done) < 4
    /\ Call(done[1])
    /\ done' = Append(done, done[1])
    /\ pc' = After(outcome', "repeat")
    /\ UNCHANGED <<notation, cube_size, start, queue, steps>>

Invert ==
    /\ pc \in {"forward", "repeat"}
    /\ queue' = inverse_sequence(done)
    /\ pc' = "backward"
    /\ UNCHANGED <<notation, cube_size, cube, outcome, movement, before, start, done, steps>>

Backward ==
    /\ pc = "backward"
    /\ queue # <<>>
    /\ Call(Head(queue))
    /\ queue' = Tail(queue)
    /\ pc' = After(outcome', "backward")
    /\ UNCHANGED <<notation, cube_size, start, done, steps>>

NextUndo ==
    \/ \E m \in ScrambleMoves : Scramble(m)
    \/ \E m \in Moves : Forward(m)
    \/ Repeat
    \/ Invert
    \/ Backward

SpecUndo == InitUndo /\ [][NextUndo]_vars

---------------------------------------------------------------------------
(* A caller that only turns the whole cube about its axes, as often as it  *)
(* likes.                                                                  *)

AxisMoves == {Mv(t, r) : t \in AxisFace, r \in Rotation}

InitOrient ==
    /\ \E d \in 1..MaxDivisions : Construct(d)
    /\ NoNotation
    /\ pc = "orient"

Reorient(m) ==
    /\ pc = "orient"
    /\ Call(m)
    /\ pc' = After(outcome', "orient")
    /\ UNCHANGED <<notation, cube_size, start, done, queue, steps>>

NextOrient == \E m \in AxisMoves : Reorient(m)

SpecOrient == InitOrient /\ [][NextOrient]_vars

---------------------------------------------------------------------------
(* src/main.rs: the program that reads a line of notation and pulls every  *)
(* item of Movements::new(&notation) in a for loop.  It has no Cube: the   *)
(* variables of the engine stay those of an empty one.                     *)

MaxSource == 3

(* The notation texts of at most n characters.                             *)
Texts(n) == UNION {[1..k -> Chars] : k \in 0..n}

NoCube ==
    /\ Construct(0)
    /\ movements = <<>>
    /\ args_invert = FALSE

(* Movements::new(source)                                                  *)
NewMovements(s) ==
    /\ source = s
    /\ rest_notation = s
    /\ yielded = <<>>

(* s with the whitespace `gap` before, between and after its characters.   *)
RECURSIVE Spread(_, _)
Spread(s, gap) ==
    IF s = <<>> THEN gap ELSE gap \o <<Head(s)>> \o Spread(Tail(s), gap)

Gap == <<"\n", " ">>

(* The lines the program reads: the texts of at most MaxSource characters  *)
(* and, of those without whitespace, the ones spread out with whitespace.  *)
Lines ==
    Texts(MaxSource)
        \cup {Spread(t, Gap) : t \in {t \in Texts(MaxSource) : \A k \in 1..Len(t) : t[k] \notin Whitespace}}

InitParser ==
    /\ NoCube
    /\ \E s \in Lines : NewMovements(s)
    /\ pc = "parse"

(* What one call of next() leaves in the iterator and with its caller.     *)
Pulled(r) ==
    /\ rest_notation' = r.rest
    /\ yielded' = Append(yielded, r.item)

(* One turn of the for loop: next() and, on None, the end of the loop.     *)
Pull ==
    /\ pc = "parse"
    /\ Pulled(NextItem(rest_notation))
    /\ pc' = IF yielded'[Len(yielded')][1] = "None" THEN "exhausted" ELSE "parse"
    /\ UNCHANGED <<cube_size, cube, outcome, movement, before, start, done, queue, steps,
                   source, movements, args_invert>>

MaxPastEnd == 2

(* The pulls made after the one that returned the first None.              *)
PastEnd == Cardinality({k \in 1..Len(yielded) : yielded[k][1] = "None"}) - 1

(* A caller that keeps the iterator after the loop and calls next() again. *)
PullAgain ==
    /\ pc \in {"exhausted", "past_end"}
    /\ PastEnd < MaxPastEnd
    /\ Pulled(NextItem(rest_notation))
    /\ pc' = "past_end"
    /\ UNCHANGED <<cube_size, cube, outcome, movement, before, start, done, queue, steps,
                   source, movements, args_invert>>

NextParser == Pull \/ PullAgain

SpecParser == InitParser /\ [][NextParser]_vars

(* The for loop does not stop while next() returns items.                  *)
SpecParserFair == SpecParser /\ WF_vars(Pull)

---------------------------------------------------------------------------
(* ncv-cli/src/main.rs: the command-line driver.  It constructs the Cube,  *)
(* parses the whole input with try_fold, then applies the movements (or    *)
(* their inverse sequence) one by one, unwrapping each result.             *)

MaxInput == 2

RECURSIVE Repeated(_, _)
Repeated(s, n) == IF n = 0 THEN <<>> ELSE s \o Repeated(s, n - 1)

(* The inputs of the driver: the short texts, and "R U R' U' " six times.  *)
Inputs ==
    Texts(MaxInput)
        \cup {Repeated(<<"R", " ", "U", " ", "R", "'", " ", "U", "'", " ">>, 6)}

InitCli ==
    /\ \E d \in 1..MaxDivisions : Construct(d)
    /\ \E s \in Inputs : NewMovements(s)
    /\ movements = <<>>
    /\ args_invert \in BOOLEAN
    /\ pc = "parse"

(* What try_fold does with one item: push the movement and go on, or stop  *)
(* with the error, or (None) hand the vector to the loop that applies it.  *)
(* A fold that drops an erroneous token and applies the movements parsed   *)
(* before it.                                                              *)
FoldedLenient(item) ==
    /\ movements' = IF item[1] = "Ok" THEN Append(movements, item[2]) ELSE movements
    /\ pc' = IF item[1] = "Ok" THEN "parse" ELSE "apply"
    /\ queue' = IF item[1] = "Ok" THEN queue
                ELSE IF args_invert THEN inverse_sequence(movements)
                ELSE movements

Folded(item) ==
    /\ movements' = IF item[1] = "Ok" THEN Append(movements, item[2]) ELSE movements
    /\ pc' = CASE item[1] = "Ok" -> "parse"
               [] item[1] = "Err" -> "parse_error"
               [] item[1] = "None" -> "apply"
    /\ queue' = IF item[1] # "None" THEN queue
                ELSE IF args_invert THEN inverse_sequence(movements)
                ELSE movements

Fold ==
    /\ pc = "parse"
    /\ Pulled(NextItem(rest_notation))
    /\ Folded(yielded'[Len(yielded')])
    /\ UNCHANGED <<cube_size, cube, outcome, movement, before, start, done, steps,
                   source, args_invert>>

(* cube.apply(movement).unwrap()                                           *)
ApplyNext ==
    /\ pc = "apply"
    /\ queue # <<>>
    /\ Call(Head(queue))
    /\ queue' = Tail(queue)
    /\ done' = Append(done, Head(queue))
    /\ pc' = IF outcome' = <<"Ok">> THEN "apply" ELSE "aborted"
    /\ UNCHANGED <<notation, cube_size, start, steps>>

(* The loop is over: the driver goes on to draw the Cube.                  *)
Render ==
    /\ pc = "apply"
    /\ queue = <<>>
    /\ pc' = "render"
    /\ UNCHANGED <<notation, cube_size, cube, outcome, movement, before, start, done,
                   queue, steps>>

(* exporter/fru.rs: Fru::draw_faces.  Each of the three loops is           *)
(* `for i in 0..9` and reads faces[&face][i]; a slice index out of the     *)
(* grid panics.                                                            *)
DrawnFaces == <<"Up", "Front", "Right">>

DrawnCells == 0..8

(* The reads of draw_faces in the order it makes them, as <<face, i>>.     *)
DrawFacesReads ==
    [k \in 1..(Len(DrawnFaces) * Cardinality(DrawnCells)) |->
        <<DrawnFaces[((k - 1) \div Cardinality(DrawnCells)) + 1],
          (k - 1) % Cardinality(DrawnCells)>>]

(* The reads draw_faces makes on the cube self up to and with the first    *)
(* one that is out of its grid.                                            *)
ReadsMade(self) ==
    LET reads == DrawFacesReads
        bad == {k \in DOMAIN reads : reads[k][2] \notin DOMAIN self.faces[reads[k][1]]}
    IN  IF bad = {} THEN reads
        ELSE SubSeq(reads, 1, CHOOSE k \in bad : \A j \in bad : k <= j)

DrawFaces(self) ==
    IF \E k \in DOMAIN ReadsMade(self) :
           ReadsMade(self)[k][2] \notin DOMAIN self.faces[ReadsMade(self)[k][1]]
    THEN <<"Panic">>
    ELSE <<"Ok">>

(* exporter.write(&cube, &mut svg_src).unwrap() with the Fru exporter.     *)
Draw ==
    /\ pc = "render"
    /\ pc' = IF DrawFaces(cube) = <<"Ok">> THEN "drawn" ELSE "draw_panic"
    /\ UNCHANGED <<notation, cube_size, cube, outcome, movement, before, start, done,
                   queue, steps>>

NextCli == Fold \/ ApplyNext \/ Render \/ Draw

SpecCli == InitCli /\ [][NextCli]_vars

---------------------------------------------------------------------------
(* Properties of the engine.                                               *)

Solved(d) == [f \in CubeFace |-> [i \in 0..(d * d - 1) |-> f]]

Replayed == pc = "backward" /\ queue = <<>>

(* C1. Inverse cancellation: a recorded movement m followed by inverse(m)  *)
(* leaves the six face grids as they were when recording began, whatever   *)
(* the size, the state recording began in and the movement.                *)
InverseCancellation ==
    (Replayed /\ Len(done) = 1) => cube.faces = start.faces

(* A wide turn of Right on a 3x3 cube that was not solved has been applied *)
(* and taken back.                                                         *)
InverseCancellationWitness ==
    /\ Replayed
    /\ done = <<Mv(<<"Right", 2>>, "Turnover")>>
    /\ movement = inverse(done[1])
    /\ outcome = <<"Ok">>
    /\ cube.divisions = 3
    /\ start.faces # Solved(3)
    /\ before.faces # start.faces

(* C2. Sequence inverse cancellation: the recorded movements followed by   *)
(* inverse_sequence of the record restore the six face grids, whatever the *)
(* record.                                                                 *)
SequenceInverseCancellation ==
    Replayed => cube.faces = start.faces

(* R then U on a 3x3 cube have been taken back as U' then R'.              *)
SequenceInverseCancellationWitness ==
    /\ Replayed
    /\ done = <<Mv(<<"Right", 1>>, "Clockwise"), Mv(<<"Up", 1>>, "Clockwise")>>
    /\ movement = Mv(<<"Right", 1>>, "Counterclockwise")
    /\ outcome = <<"Ok">>
    /\ cube.divisions = 3
    /\ before.faces # start.faces

(* C4. Slice-move domain: apply of Standing, Middle or Equational returns  *)
(* UndefinedMovement carrying the movement when the size is not 3 and      *)
(* succeeds when it is 3.                                                  *)
SliceMoveDomain ==
    movement.target \in SliceFace =>
        outcome = IF cube.divisions = 3 THEN <<"Ok">>
                  ELSE <<"UndefinedMovement", movement>>

(* Middle has been refused on a 1x1 cube.                                  *)
SliceMoveDomainWitness ==
    /\ movement = Mv(<<"Middle">>, "Counterclockwise")
    /\ cube.divisions = 1
    /\ outcome = <<"UndefinedMovement", movement>>

(* C5. Strong exception safety: after a call of apply that did not         *)
(* succeed, the Cube (grids, size, table) is as it was before the call.    *)
StrongExceptionSafety ==
    outcome \notin {<<"None">>, <<"Ok">>} => cube = before

(* C6. Every face turn the notation can express and every whole-cube       *)
(* movement succeeds on every size.                                        *)
NonSliceAlwaysSucceeds ==
    (movement # NoMovement /\ movement.target \notin SliceFace) => outcome = <<"Ok">>

(* One clockwise quarter turn of the grid of face f, face only.            *)
QuarterTurn(run, f) == TurnFace(run, f, 1)

(* C7. Identity by repetition: four face-only clockwise quarter turns of   *)
(* any face restore its grid, and the same clockwise quarter-turn movement *)
(* applied four times restores the six grids.                              *)
IdentityByRepetition ==
    /\ \A f \in CubeFace :
          QuarterTurn(QuarterTurn(QuarterTurn(QuarterTurn(
              [self |-> cube, panic |-> FALSE], f), f), f), f).self = cube
    /\ (pc = "repeat" /\ Len(done) = 4 /\ done[1].direction = "Clockwise")
          => cube.faces = start.faces

(* F has been applied four times to a 3x3 cube that was not solved, and    *)
(* the grid of Front is one that a quarter turn changes.                   *)
IdentityByRepetitionWitness ==
    /\ pc = "repeat"
    /\ Len(done) = 4
    /\ done[1] = Mv(<<"Front", 1>>, "Clockwise")
    /\ cube.divisions = 3
    /\ start.faces # Solved(3)
    /\ before.faces # cube.faces
    /\ QuarterTurn([self |-> cube, panic |-> FALSE], "Front").self # cube

(* C8. Construct(N) gives the solved state: six grids of N*N entries, the  *)
(* grid of face f filled with f, and the size N.                           *)
ConstructSolved ==
    outcome = <<"None">> =>
        /\ cube.divisions = cube_size
        /\ DOMAIN cube.faces = CubeFace
        /\ \A f \in CubeFace :
              /\ DOMAIN cube.faces[f] = 0..(cube_size * cube_size - 1)
              /\ \A i \in DOMAIN cube.faces[f] : cube.faces[f][i] = f

(* A 3x3 cube has been constructed and nothing applied to it.              *)
ConstructSolvedWitness ==
    outcome = <<"None">> /\ cube_size = 3 /\ steps = 0

(* C9. In every state the six grids exist, each has N*N entries, every     *)
(* entry is a label, and N is the size the Cube was constructed with.      *)
GridsWellFormed ==
    /\ cube.divisions = cube_size
    /\ DOMAIN cube.faces = CubeFace
    /\ \A f \in CubeFace :
          /\ DOMAIN cube.faces[f] = 0..(cube_size * cube_size - 1)
          /\ \A i \in DOMAIN cube.faces[f] : cube.faces[f][i] \in CubeFace

(* A refused slice movement after a turn that mixed the grids of a 4x4.    *)
GridsWellFormedWitness ==
    /\ steps = 2
    /\ cube_size = 4
    /\ outcome = <<"UndefinedMovement", movement>>
    /\ cube.faces # Solved(4)

---------------------------------------------------------------------------
(* Properties of the driver and of the parser.                             *)

(* The four movements R, U, R', U', each of one layer.                     *)
RURU ==
    << Mv(<<"Right", 1>>, "Clockwise"), Mv(<<"Up", 1>>, "Clockwise"),
       Mv(<<"Right", 1>>, "Counterclockwise"), Mv(<<"Up", 1>>, "Counterclockwise") >>

(* C3.  Known finite order: on a freshly constructed cube with N = 3,      *)
(* once the movements R, U, R', U' have been applied six times in          *)
(* succession (24 calls of apply, nothing else), the cube is solved: every *)
(* facelet of every face grid equals the label of its face.                *)
KnownFiniteOrder ==
    (start = New(3) /\ done = Repeated(RURU, 6)) => cube.faces = Solved(3)

KnownFiniteOrderWitness ==
    /\ start = New(3)
    /\ done = Repeated(RURU, 6)
    /\ Len(done) = 24
    /\ pc = "render"
    /\ outcome = <<"Ok">>
    /\ movement = RURU[4]
    /\ before.faces # Solved(3)

(* The letters of the six faces in the two conventions of a wide turn.     *)
UpperOf ==
    [f \in CubeFace |->
        CASE f = "Front" -> "F" [] f = "Back" -> "B" [] f = "Left" -> "L"
          [] f = "Right" -> "R" [] f = "Up" -> "U" [] f = "Down" -> "D"]

LowerOf ==
    [f \in CubeFace |->
        CASE f = "Front" -> "f" [] f = "Back" -> "b" [] f = "Left" -> "l"
          [] f = "Right" -> "r" [] f = "Up" -> "u" [] f = "Down" -> "d"]

(* The direction suffixes, each with the direction it stands for.          *)
Suffixes ==
    { <<<<>>, "Clockwise">>, <<<<"2">>, "Turnover">>, <<<<"'">>, "Counterclockwise">> }

(* C10.  Parser equivalence of the two conventions of a wide turn: for     *)
(* each of the six face letters and each direction suffix (none, 2,        *)
(* apostrophe), the text made of the uppercase letter, w and the suffix    *)
(* and the text made of the lowercase letter and the suffix both parse to  *)
(* one and the same single item, the movement (that face, 2 layers, that   *)
(* direction), and the pull after it reports the end of the input.         *)
WideTurnEquivalence ==
    \A f \in CubeFace, sfx \in Suffixes :
        (/\ source \in {<<UpperOf[f], "w">> \o sfx[1], <<LowerOf[f]>> \o sfx[1]}
         /\ yielded # <<>>)
        => /\ yielded[1] = <<"Ok", Mv(<<f, 2>>, sfx[2])>>
           /\ Len(yielded) > 1 => yielded[2] = <<"None">>

WideTurnEquivalenceWitness ==
    /\ pc = "exhausted"
    /\ source = <<"R", "w", "'">>
    /\ yielded = << <<"Ok", Mv(<<"Right", 2>>, "Counterclockwise")>>, <<"None">> >>

(* The letters the parser recognizes, each with the target it stands for.  *)
Letters == UpperLetters \cup LowerLetters \cup AxisLetters

LetterTarget ==
    [l \in Letters |->
        CASE l = "F" -> <<"Front", 1>> [] l = "f" -> <<"Front", 2>>
          [] l = "B" -> <<"Back", 1>>  [] l = "b" -> <<"Back", 2>>
          [] l = "L" -> <<"Left", 1>>  [] l = "l" -> <<"Left", 2>>
          [] l = "R" -> <<"Right", 1>> [] l = "r" -> <<"Right", 2>>
          [] l = "U" -> <<"Up", 1>>    [] l = "u" -> <<"Up", 2>>
          [] l = "D" -> <<"Down", 1>>  [] l = "d" -> <<"Down", 2>>
          [] l = "S" -> <<"Standing">> [] l = "M" -> <<"Middle">>
          [] l = "E" -> <<"Equational">>
          [] l = "x" -> <<"X">> [] l = "y" -> <<"Y">> [] l = "z" -> <<"Z">>]

(* The direction that the character after a letter stands for; `c` is      *)
(* "" when the text ends with the letter.                                  *)
SuffixDirection(c) ==
    CASE c = "2" -> "Turnover"
      [] c = "'" -> "Counterclockwise"
      [] OTHER -> "Clockwise"

(* The second character of the text, "" when there is none.                *)
Second(s) == IF Len(s) > 1 THEN s[2] ELSE ""

(* C11.  Direction suffix decoding: when the text begins with a            *)
(* recognized face, slice or whole-cube letter, the first item is the      *)
(* movement of that letter's target and depth, with a half turn when a 2   *)
(* follows the letter, a counterclockwise quarter turn when an apostrophe  *)
(* follows it, and a clockwise quarter turn when the text ends there or    *)
(* goes on with a character that is no suffix (nor w, nor whitespace);     *)
(* and "R2" parses to exactly one movement, (Right, 1 layer, half turn).   *)
SuffixDecoding ==
    /\ (/\ yielded # <<>>
        /\ source # <<>>
        /\ source[1] \in Letters
        /\ Second(source) \notin Whitespace \cup {"w"})
       => yielded[1] = <<"Ok", Mv(LetterTarget[source[1]], SuffixDirection(Second(source)))>>
    /\ (source = <<"R", "2">> /\ pc = "exhausted")
       => yielded = << <<"Ok", Mv(<<"Right", 1>>, "Turnover")>>, <<"None">> >>

SuffixDecodingWitness ==
    /\ pc = "exhausted"
    /\ source = <<"R", "2">>
    /\ Len(yielded) = 2
    /\ yielded[1][2].direction = "Turnover"

(* The text from its first character that is not whitespace: that          *)
(* character is in face-letter position.                                   *)
Trimmed(s) ==
    IF \A k \in 1..Len(s) : s[k] \in Whitespace
    THEN <<>>
    ELSE SubSeq(s, CHOOSE k \in 1..Len(s) :
                       s[k] \notin Whitespace /\ \A j \in 1..(k - 1) : s[j] \in Whitespace,
                Len(s))

(* The item of a pull is an error exactly when the character in            *)
(* face-letter position is no recognized letter, and the error is          *)
(* InvalidFace of that character.                                          *)
ErrorIsInvalidFace(item, face) ==
    /\ item[1] = "Err" <=> (face # <<>> /\ face[1] \notin Letters)
    /\ item[1] = "Err" => item[2] = <<"InvalidFace", face[1]>>

(* C12.  Whenever the character in face-letter position is not whitespace  *)
(* and not one of F S B L M R U E D f b l r u d x y z (so also for an      *)
(* uppercase X or a lowercase m), the pull yields InvalidFace carrying     *)
(* exactly that character; no pull yields any other error, and no pull at  *)
(* a recognized letter or at the end of the text yields an error; "Q"      *)
(* alone yields InvalidFace('Q') and then the end of the input.            *)
InvalidFaceOnly ==
    /\ []((source = <<"Q">> /\ pc = "exhausted")
            => yielded = << <<"Err", <<"InvalidFace", "Q">>>>, <<"None">> >>)
    /\ [][Len(yielded') = Len(yielded) + 1
            => ErrorIsInvalidFace(yielded'[Len(yielded')], Trimmed(rest_notation))]_vars

InvalidFaceOnlyWitness ==
    /\ source = <<"X", " ", "m">>
    /\ pc = "exhausted"
    /\ Len(yielded) = 3
    /\ yielded[1] = <<"Err", <<"InvalidFace", "X">>>>
    /\ yielded[2] = <<"Err", <<"InvalidFace", "m">>>>

(* The text without its whitespace.                                        *)
Unspaced(s) == SelectSeq(s, LAMBDA c : c \notin Whitespace)

(* C13.  Whitespace insensitivity: the items a text yields, pulled to the  *)
(* end, are the items the same text yields with all its whitespace         *)
(* deleted, wherever the whitespace stands: before the first token, after  *)
(* the last, between tokens, between a letter and its w, between a letter  *)
(* or w and the suffix; and no error carries a whitespace character.       *)
WhitespaceInsensitive ==
    /\ pc = "exhausted" => yielded = ItemsOf(Unspaced(source))
    /\ \A k \in 1..Len(yielded) :
           yielded[k][1] = "Err" => yielded[k][2][2] \notin Whitespace

WhitespaceInsensitiveWitness ==
    /\ pc = "exhausted"
    /\ source = <<"\n", " ", "R", "\n", " ", "w", "\n", " ", "'", "\n", " ">>
    /\ Len(yielded) = 2
    /\ yielded[1] = <<"Ok", Mv(<<"Right", 2>>, "Counterclockwise")>>

(* The items, other than None, yielded so far.                             *)
ItemsYielded == Cardinality({k \in 1..Len(yielded) : yielded[k][1] # "None"})

(* One pull: the cursor has moved forward (what is left is a suffix of     *)
(* what was left), by at least one character when an item is returned.     *)
MovedForward(rest, item, left) ==
    /\ Len(left) <= Len(rest)
    /\ left = SubSeq(rest, Len(rest) - Len(left) + 1, Len(rest))
    /\ item[1] # "None" => Len(left) < Len(rest)

(* C14.  Parser termination: for every text, pulling reaches the end of    *)
(* the input; the items returned are never more than the characters        *)
(* consumed (so at most the characters of the text); every pull moves the  *)
(* cursor forward only, by at least one character when it returns an       *)
(* item; and once the end has been reported every later pull reports it.   *)
ParserTermination ==
    /\ <>(pc # "parse")
    /\ [](/\ ItemsYielded <= Len(source) - Len(rest_notation)
          /\ \A j, k \in 1..Len(yielded) :
                 (j < k /\ yielded[j][1] = "None") => yielded[k][1] = "None")
    /\ [][Len(yielded') = Len(yielded) + 1
            => MovedForward(rest_notation, yielded'[Len(yielded')], rest_notation')]_vars

ParserTerminationWitness ==
    /\ pc = "past_end"
    /\ source = <<"Q", "R", "2">>
    /\ Len(yielded) = 4
    /\ yielded[3] = <<"None">>
    /\ yielded[4] = <<"None">>
    /\ rest_notation = <<>>

(* The number of characters of the text the parser has consumed.           *)
Consumed == Len(source) - Len(rest_notation)

(* C15.  A parse error does not consume or corrupt the remaining input:    *)
(* when the last item yielded is InvalidFace(c), c is the last character   *)
(* consumed, what is left is the text that follows it, and the items of    *)
(* the whole text are the items yielded so far followed by the items a     *)
(* fresh parser yields on what is left; "QR" gives InvalidFace('Q'), then  *)
(* the movement R, then the end of the input.                              *)
ErrorLeavesRest ==
    /\ (yielded # <<>> /\ yielded[Len(yielded)][1] = "Err")
       => /\ Consumed >= 1
          /\ source[Consumed] = yielded[Len(yielded)][2][2]
          /\ rest_notation = SubSeq(source, Consumed + 1, Len(source))
          /\ ItemsOf(source) = yielded \o ItemsOf(rest_notation)
    /\ (source = <<"Q", "R">> /\ pc = "exhausted")
       => yielded = << <<"Err", <<"InvalidFace", "Q">>>>,
                       <<"Ok", Mv(<<"Right", 1>>, "Clockwise")>>,
                       <<"None">> >>

ErrorLeavesRestWitness ==
    /\ source = <<"Q", "R">>
    /\ Len(yielded) = 1
    /\ yielded[1] = <<"Err", <<"InvalidFace", "Q">>>>
    /\ rest_notation = <<"R">>

(* The six uppercase face letters, after which a w is the wide marker.     *)
FaceLetters == {UpperOf[f] : f \in CubeFace}

(* C16.  Scope of the wide marker: in a text that begins with a letter     *)
(* followed at once by w, the first pull consumes the w and yields depth   *)
(* 2 when the letter is one of F, B, L, R, U, D; when the letter is a      *)
(* slice letter, a whole-cube letter or a lowercase face letter, the first *)
(* pull yields that letter's clockwise movement and leaves the w, which    *)
(* the next pull reads as the start of a token (an InvalidFace of w).      *)
WideMarkerScope ==
    (/\ Len(source) > 1
     /\ source[1] \in Letters
     /\ source[2] = "w"
     /\ yielded # <<>>)
    => IF source[1] \in FaceLetters
       THEN /\ yielded[1][1] = "Ok"
            /\ yielded[1][2].target = <<LetterTarget[source[1]][1], 2>>
            /\ Len(yielded) = 1 => Consumed >= 2
       ELSE /\ yielded[1] = <<"Ok", Mv(LetterTarget[source[1]], "Clockwise")>>
            /\ Len(yielded) = 1 => rest_notation = Tail(source)
            /\ Len(yielded) > 1 => yielded[2] = <<"Err", <<"InvalidFace", "w">>>>

DirectionSuffixes == {"2", "'"}

(* What one pull that returned a movement has consumed, whitespace apart:  *)
(* `u` is the letter, then at most a w, then at most one suffix.  The      *)
(* suffix, if any, is the last character consumed and gives the direction; *)
(* with no suffix the direction is clockwise and what is left does not     *)
(* begin with a suffix.                                                    *)
OneSuffix(m, used, u, left) ==
    /\ u # <<>>
    /\ u[1] \in Letters
    /\ \A k \in 2..Len(u) :
           /\ u[k] \in {"w"} \cup DirectionSuffixes
           /\ u[k] = "w" => k = 2
           /\ u[k] \in DirectionSuffixes
                => (k = Len(u) /\ used[Len(used)] = u[k]
                    /\ m.direction = SuffixDirection(u[k]))
    /\ u[Len(u)] \notin DirectionSuffixes
         => (m.direction = "Clockwise" /\ (left = <<>> \/ left[1] \notin DirectionSuffixes))

SuffixTaken(item, used, left) ==
    item[1] = "Ok" => OneSuffix(item[2], used, Unspaced(used), left)

(* C17.  Each movement consumes at most one direction suffix, and a        *)
(* character after the letter (and the w, if one was taken) that is        *)
(* neither 2 nor apostrophe is left unconsumed, so that the next pull      *)
(* starts at it: "R2'" yields R2 and then starts at the apostrophe, "R''"  *)
(* yields R' and then starts at the second apostrophe, and in "RU" the U   *)
(* is the next token.                                                      *)
SingleSuffix ==
    /\ [](pc = "exhausted" =>
            /\ source = <<"R", "2", "'">>
                 => yielded = << <<"Ok", Mv(<<"Right", 1>>, "Turnover")>>,
                                 <<"Err", <<"InvalidFace", "'">>>>, <<"None">> >>
            /\ source = <<"R", "'", "'">>
                 => yielded = << <<"Ok", Mv(<<"Right", 1>>, "Counterclockwise")>>,
                                 <<"Err", <<"InvalidFace", "'">>>>, <<"None">> >>
            /\ source = <<"R", "U">>
                 => yielded = << <<"Ok", Mv(<<"Right", 1>>, "Clockwise")>>,
                                 <<"Ok", Mv(<<"Up", 1>>, "Clockwise")>>, <<"None">> >>)
    /\ [][Len(yielded') = Len(yielded) + 1
            => SuffixTaken(yielded'[Len(yielded')],
                           SubSeq(rest_notation, 1, Len(rest_notation) - Len(rest_notation')),
                           rest_notation')]_vars

SingleSuffixWitness ==
    /\ source = <<"R", "2", "'">>
    /\ Len(yielded) = 1
    /\ yielded[1] = <<"Ok", Mv(<<"Right", 1>>, "Turnover")>>
    /\ rest_notation = <<"'">>

---------------------------------------------------------------------------
(* Relations between the movements of the engine.                          *)

(* The Cube after apply(m), and after applying a sequence of movements,    *)
(* one call after the other.                                               *)
Then(self, m) == Apply(self, m).self

RECURSIVE ThenAll(_, _)
ThenAll(self, ms) ==
    IF ms = <<>> THEN self
    ELSE CHOOSE last \in {ThenAll(next, Tail(ms)) : next \in {Then(self, Head(ms))}} : TRUE

(* The targets defined on a cube of d divisions: the six faces at every    *)
(* depth up to d, the slices when d = 3, the three axes.                   *)
TargetsOf(d) ==
    LayeredFace(1..d) \cup (IF d = 3 THEN SliceFace ELSE {}) \cup AxisFace

(* C18.  For every target (each face at any depth <= N, each slice on      *)
(* N = 3, each whole-cube axis) and from every scrambled state, the half   *)
(* turn gives the same Cube as the clockwise turn applied twice, and the   *)
(* counterclockwise turn the same Cube as the clockwise turn applied       *)
(* three times; all of these calls succeed.                                *)
RotationAmounts ==
    pc = "scramble" =>
        \A t \in TargetsOf(cube.divisions) :
            /\ Apply(cube, Mv(t, "Turnover")).result = <<"Ok">>
            /\ Then(cube, Mv(t, "Turnover"))
                  = ThenAll(cube, <<Mv(t, "Clockwise"), Mv(t, "Clockwise")>>)
            /\ Then(cube, Mv(t, "Counterclockwise"))
                  = ThenAll(cube, <<Mv(t, "Clockwise"), Mv(t, "Clockwise"),
                                    Mv(t, "Clockwise")>>)

RotationAmountsWitness ==
    /\ pc = "scramble"
    /\ cube.divisions = 3
    /\ steps = 2
    /\ cube.faces # Solved(3)
    /\ Then(cube, Mv(<<"Middle">>, "Turnover")) # cube
    /\ Then(cube, Mv(<<"Left", 3>>, "Counterclockwise"))
         # Then(cube, Mv(<<"Left", 3>>, "Clockwise"))

(* C19.  Whole-cube reorientation keeps the solved configuration: after    *)
(* any sequence of whole-cube movements (x, y, z with any rotation) from   *)
(* the solved state, for every N, each of the six face grids is filled     *)
(* with a single label and the six grids carry six distinct labels.        *)
ReorientationKeepsSolved ==
    /\ outcome \in {<<"None">>, <<"Ok">>}
    /\ \A f \in CubeFace : \A i \in DOMAIN cube.faces[f] : cube.faces[f][i] = cube.faces[f][0]
    /\ Cardinality({cube.faces[f][0] : f \in CubeFace}) = 6

ReorientationKeepsSolvedWitness ==
    /\ cube_size = 4
    /\ movement = Mv(<<"Z">>, "Counterclockwise")
    /\ outcome = <<"Ok">>
    /\ before.faces # Solved(4)
    /\ cube.faces # Solved(4)
    /\ cube.faces # before.faces
    /\ \A f \in CubeFace : cube.faces[f][0] # f

(* C20.  On N = 3 and in every state, each whole-cube clockwise quarter    *)
(* turn gives the same Cube as the three layer movements along its axis:   *)
(* x as R then M' then L', y as U then E' then D', z as F then S then B'.  *)
AxisAsLayers ==
    cube.divisions = 3 =>
        /\ Then(cube, Mv(<<"X">>, "Clockwise"))
             = ThenAll(cube, << Mv(<<"Right", 1>>, "Clockwise"),
                                Mv(<<"Middle">>, "Counterclockwise"),
                                Mv(<<"Left", 1>>, "Counterclockwise") >>)
        /\ Then(cube, Mv(<<"Y">>, "Clockwise"))
             = ThenAll(cube, << Mv(<<"Up", 1>>, "Clockwise"),
                                Mv(<<"Equational">>, "Counterclockwise"),
                                Mv(<<"Down", 1>>, "Counterclockwise") >>)
        /\ Then(cube, Mv(<<"Z">>, "Clockwise"))
             = ThenAll(cube, << Mv(<<"Front", 1>>, "Clockwise"),
                                Mv(<<"Standing">>, "Clockwise"),
                                Mv(<<"Back", 1>>, "Counterclockwise") >>)

(* The number of facelets, over the six grids, that carry the label l.     *)
Occurrences(l) ==
    Cardinality({p \in CubeFace \X Cells(cube.divisions) : cube.faces[p[1]][p[2]] = l})

(* C21.  Label conservation: in every state reached from the solved state  *)
(* by calls of apply, whether they succeed or fail, each of the six labels *)
(* occurs exactly N*N times in total across the six face grids.            *)
LabelConservation ==
    \A l \in CubeFace : Occurrences(l) = cube_size * cube_size

LabelConservationWitness ==
    /\ cube_size = 3
    /\ steps = 2
    /\ movement = Mv(<<"Front", 2>>, "Counterclockwise")
    /\ outcome = <<"Ok">>
    /\ before.faces # Solved(3)
    /\ Cardinality({cube.faces["Up"][i] : i \in Cells(3)}) >= 3

(* The side of the grid of face g that touches the face f, for g adjacent  *)
(* to f on the unfolded cube (Up above Front, Down below it, Left and      *)
(* Right beside it, Back beside Right); "None" for f itself and for the    *)
(* face opposite to f.                                                     *)
SideTowards(f, g) ==
    CASE f = "Right" /\ g \in {"Front", "Up", "Down"} -> "LastColumns"
      [] f = "Right" /\ g = "Back" -> "FirstColumns"
      [] f = "Left" /\ g \in {"Front", "Up", "Down"} -> "FirstColumns"
      [] f = "Left" /\ g = "Back" -> "LastColumns"
      [] f = "Up" /\ g \in {"Front", "Right", "Back", "Left"} -> "FirstRows"
      [] f = "Down" /\ g \in {"Front", "Right", "Back", "Left"} -> "LastRows"
      [] f = "Front" /\ g = "Up" -> "LastRows"
      [] f = "Front" /\ g = "Down" -> "FirstRows"
      [] f = "Front" /\ g = "Right" -> "FirstColumns"
      [] f = "Front" /\ g = "Left" -> "LastColumns"
      [] f = "Back" /\ g = "Up" -> "FirstRows"
      [] f = "Back" /\ g = "Down" -> "LastRows"
      [] f = "Back" /\ g = "Right" -> "LastColumns"
      [] f = "Back" /\ g = "Left" -> "FirstColumns"
      [] OTHER -> "None"

(* The cells of a grid of size d in its l rows or columns at a side.       *)
CellsAt(side, d, l) ==
    CASE side = "FirstRows" -> {i \in Cells(d) : i \div d < l}
      [] side = "LastRows" -> {i \in Cells(d) : i \div d >= d - l}
      [] side = "FirstColumns" -> {i \in Cells(d) : i % d < l}
      [] side = "LastColumns" -> {i \in Cells(d) : i % d >= d - l}
      [] side = "None" -> {}

(* The cells of grid g that a turn of face f with depth l may change.      *)
Frame(f, g, d, l) == IF g = f THEN Cells(d) ELSE CellsAt(SideTowards(f, g), d, l)

Changed(g) == {i \in Cells(cube.divisions) : cube.faces[g][i] # before.faces[g][i]}

(* A call of apply with a face turn of depth L, 1 <= L < N.                *)
ShallowFaceTurn ==
    /\ outcome # <<"None">>
    /\ Len(movement.target) = 2
    /\ movement.target[2] < cube_size

(* C22.  Frame of a face turn: a face turn of depth L with 1 <= L < N      *)
(* changes only the grid of the nominal face and, on each of the four      *)
(* adjacent faces, the L rows or columns nearest the nominal face; the     *)
(* grid of the opposite face and every other row or column of the adjacent *)
(* faces are unchanged.                                                    *)
FaceTurnFrame ==
    ShallowFaceTurn =>
        /\ outcome = <<"Ok">>
        /\ \A g \in CubeFace :
               Changed(g) \subseteq
                   Frame(movement.target[1], g, cube.divisions, movement.target[2])

(* R on a scrambled cube of size 3 changes Front, Up and Down in column 2  *)
(* and Back in column 0, and nothing else outside the Right grid.          *)
FaceTurnFrameWitness ==
    /\ ShallowFaceTurn
    /\ cube_size = 3
    /\ steps = 2
    /\ movement = Mv(<<"Right", 1>>, "Clockwise")
    /\ Changed("Front") = {2, 5, 8}
    /\ Changed("Up") = {2, 5, 8}
    /\ Changed("Down") = {2, 5, 8}
    /\ Changed("Back") = {0, 3, 6}
    /\ Changed("Left") = {}
    /\ Changed("Right") # {}

(* The cube after turn_face(face, 1) on the present cube.                  *)
FaceOnlyTurned(face) == TurnFace([self |-> cube, panic |-> FALSE], face, 1).self

(* The grid `to` is the grid `from` of size d with the facelet at (row r,  *)
(* column c) moved to (row c, column d-1-r).                               *)
GridQuarterTurned(from, to, d) ==
    /\ DOMAIN to = Cells(d)
    /\ \A r \in 0..(d - 1), c \in 0..(d - 1) :
           to[c * d + (d - 1 - r)] = from[r * d + c]

(* A call of apply with a clockwise face turn that returned Ok: its        *)
(* turn_face(face, 1) is the only writer of the grid of the nominal face.  *)
ClockwiseFaceTurn ==
    /\ outcome = <<"Ok">>
    /\ Len(movement.target) = 2
    /\ movement.direction = "Clockwise"

(* C23.  A face-only rotation by one clockwise quarter turn moves the      *)
(* facelet at (row r, column c) of the target grid to (row c, column       *)
(* N-1-r), for all r, c in 0..N-1, and changes no facelet of another grid: *)
(* for turn_face(face, 1) on every reached cube and each of the six faces, *)
(* and for the grid of the nominal face in every clockwise face turn that  *)
(* apply has made.                                                         *)
FaceOnlyQuarterTurn ==
    /\ \A face \in CubeFace :
           /\ GridQuarterTurned(cube.faces[face], FaceOnlyTurned(face).faces[face],
                                cube.divisions)
           /\ \A g \in CubeFace \ {face} : FaceOnlyTurned(face).faces[g] = cube.faces[g]
    /\ ClockwiseFaceTurn =>
           GridQuarterTurned(before.faces[movement.target[1]],
                             cube.faces[movement.target[1]], cube.divisions)

(* F on a cube of size 3 whose Front grid carried two labels after a       *)
(* first move: the grid has changed, its top-left facelet is now the       *)
(* top-right one.                                                          *)
FaceOnlyQuarterTurnWitness ==
    /\ ClockwiseFaceTurn
    /\ cube_size = 3
    /\ steps = 2
    /\ movement.target = <<"Front", 1>>
    /\ Cardinality({before.faces["Front"][i] : i \in Cells(3)}) = 2
    /\ before.faces["Front"][0] # before.faces["Front"][2]
    /\ cube.faces["Front"] # before.faces["Front"]
    /\ cube.faces["Front"][2] = before.faces["Front"][0]

(* The cube after one pass of the loop of turn_layer_x at column c of      *)
(* Front, made on the present cube.                                        *)
XStepped(c) == StepLayerX([self |-> cube, panic |-> FALSE], c).self

(* Row r and column c of a grid g of size d, first entry first.            *)
RowOf(g, d, r) == [k \in 1..d |-> g[r * d + (k - 1)]]

ColumnOf(g, d, c) == [k \in 1..d |-> g[c + d * (k - 1)]]

(* A strip as it is, or end to end.                                        *)
EitherWay(strip) == {strip, [k \in 1..Len(strip) |-> strip[Len(strip) + 1 - k]]}

(* The cells of column c of a grid of size d.                              *)
ColumnCells(d, c) == {i \in Cells(d) : i % d = c}

(* The four columns of one step at column c of Front: old is the cube      *)
(* before the step and new the cube after it.                              *)
ColumnsCycled(old, new, c) ==
    LET d == old.divisions
    IN  /\ ColumnOf(new.faces["Up"], d, c) \in EitherWay(ColumnOf(old.faces["Front"], d, c))
        /\ ColumnOf(new.faces["Back"], d, d - 1 - c)
               \in EitherWay(ColumnOf(old.faces["Up"], d, c))
        /\ ColumnOf(new.faces["Down"], d, c)
               \in EitherWay(ColumnOf(old.faces["Back"], d, d - 1 - c))
        /\ ColumnOf(new.faces["Front"], d, c) \in EitherWay(ColumnOf(old.faces["Down"], d, c))
        /\ \A g \in {"Front", "Up", "Down"} : \A i \in Cells(d) \ ColumnCells(d, c) :
               new.faces[g][i] = old.faces[g][i]
        /\ \A i \in Cells(d) \ ColumnCells(d, d - 1 - c) :
               new.faces["Back"][i] = old.faces["Back"][i]
        /\ new.faces["Left"] = old.faces["Left"]
        /\ new.faces["Right"] = old.faces["Right"]

(* The strips as stated: a column of Front, a row ru of Up, a column cb of *)
(* Back and a row rd of Down, each written into the next face.             *)
RowsCycled(old, new, c) ==
    LET d == old.divisions
    IN  \E ru \in 0..(d - 1), cb \in 0..(d - 1), rd \in 0..(d - 1) :
           /\ RowOf(new.faces["Up"], d, ru) \in EitherWay(ColumnOf(old.faces["Front"], d, c))
           /\ ColumnOf(new.faces["Back"], d, cb) \in EitherWay(RowOf(old.faces["Up"], d, ru))
           /\ RowOf(new.faces["Down"], d, rd) \in EitherWay(ColumnOf(old.faces["Back"], d, cb))
           /\ ColumnOf(new.faces["Front"], d, c) \in EitherWay(RowOf(old.faces["Down"], d, rd))

(* A call of apply that made exactly one pass of the loop of               *)
(* turn_layer_x: M' on a cube of size 3 is turn_layer_x(1, 1).             *)
SingleXStep ==
    /\ outcome = <<"Ok">>
    /\ movement = Mv(<<"Middle">>, "Counterclockwise")

(* C24 as stated.  One single step of the X-axis layer rotation cycles     *)
(* four strips in the order Front -> Up -> Back -> Down -> Front, each     *)
(* extracted strip being written into the next face of the cycle, where    *)
(* the strips are a column of Front, a row of Up, a column of Back and a   *)
(* row of Down.                                                            *)
XStepCyclesRows ==
    /\ \A c \in 0..(cube.divisions - 1) : RowsCycled(cube, XStepped(c), c)
    /\ SingleXStep => RowsCycled(before, cube, 1)

(* C24, amended.  One single step of the X-axis layer rotation at column c *)
(* of Front cycles four columns in the order Front -> Up -> Back -> Down   *)
(* -> Front, each extracted column being written into the next face of     *)
(* the cycle: column c of Front, column c of Up, column N-1-c of Back and  *)
(* column c of Down; no other facelet changes.                             *)
XStepCyclesColumns ==
    /\ \A c \in 0..(cube.divisions - 1) : ColumnsCycled(cube, XStepped(c), c)
    /\ SingleXStep => ColumnsCycled(before, cube, 1)

(* M' on a cube of size 3 after a first move that left three labels in    *)
(* column 1 of Up: that column is now column 1 of Back.                    *)
XStepCyclesColumnsWitness ==
    /\ SingleXStep
    /\ cube_size = 3
    /\ steps = 2
    /\ Cardinality({before.faces["Up"][i] : i \in ColumnCells(3, 1)}) >= 2
    /\ ColumnOf(cube.faces["Back"], 3, 1) # ColumnOf(before.faces["Back"], 3, 1)
    /\ ColumnOf(cube.faces["Up"], 3, 1) = ColumnOf(before.faces["Front"], 3, 1)

(* The items of a sequence of items that are errors, and the movements of  *)
(* those that are not.                                                     *)
ErrorsIn(items) == {k \in 1..Len(items) : items[k][1] = "Err"}

OkItems(items) == SelectSeq(items, LAMBDA item : item[1] = "Ok")

MovementsIn(items) == [k \in 1..Len(OkItems(items)) |-> OkItems(items)[k][2]]

(* The input is one of the short texts (the long one is R U R' U' six      *)
(* times, which has no erroneous token).                                   *)
ShortInput == Len(source) <= MaxInput

(* The input is a short text with a token that yields a parse error.       *)
InputHasError == ShortInput /\ ErrorsIn(ItemsOf(source)) # {}

(* What the driver applies once the whole input is parsed.                 *)
Planned == IF args_invert THEN inverse_sequence(movements) ELSE movements

(* Nothing has been applied to the cube.                                   *)
Untouched == done = <<>> /\ outcome = <<"None">> /\ cube = New(cube_size)

(* The run has ended with the first parse error of the input.              *)
EndedWithError ==
    /\ pc = "parse_error"
    /\ ErrorsIn(yielded) = {Len(yielded)}
    /\ yielded = SubSeq(ItemsOf(source), 1, Len(yielded))

(* The whole input has been pulled, to the None at its end, and no item    *)
(* was an error.                                                           *)
ParsedWhole ==
    /\ yielded # <<>>
    /\ yielded[Len(yielded)] = <<"None">>
    /\ ErrorsIn(yielded) = {}
    /\ SkipWhitespaces(rest_notation) = <<>>
    /\ ShortInput => yielded = ItemsOf(source)

(* C25.  In the command-line driver a parse error is fatal to the whole    *)
(* run: if any token of the input yields a parse error, no move is ever    *)
(* applied to the cube and the run never reaches the apply loop; it ends   *)
(* at the first error, with no step after it.  Every token is parsed       *)
(* before the first apply: the items are pulled one after the other from   *)
(* the start of the input, and the apply loop begins only with all items   *)
(* of the input pulled, none of them an error.  The movements are then     *)
(* applied one by one in the order parsed, or in the order of the inverse  *)
(* sequence when inversion is requested.                                   *)
ParseErrorFatal ==
    /\ [](InputHasError => (Untouched /\ pc \in {"parse", "parse_error"}))
    /\ [](ErrorsIn(yielded) # {} => (Untouched /\ pc = "parse_error"))
    /\ [](pc = "parse_error" => EndedWithError)
    /\ [](pc = "parse" => Untouched)
    /\ [](yielded = <<>> => rest_notation = source)
    /\ [](pc \notin {"parse", "parse_error"} =>
            /\ ParsedWhole
            /\ movements = MovementsIn(yielded)
            /\ done \o queue = Planned
            /\ (pc \in {"render", "drawn", "draw_panic"} => done = Planned))
    /\ [][pc # "parse_error"]_vars
    /\ [][yielded' # yielded =>
            /\ pc = "parse"
            /\ yielded' = Append(yielded, NextItem(rest_notation).item)
            /\ rest_notation' = NextItem(rest_notation).rest]_vars
    /\ [][done' # done =>
            (pc = "apply" /\ ParsedWhole /\ done' = Append(done, Head(queue))
                /\ movement' = Head(queue))]_vars

(* "RQ": R is parsed and pushed, Q is an error, and the run has ended with *)
(* the cube of size 3 untouched.                                           *)
ParseErrorFatalWitness ==
    /\ source = <<"R", "Q">>
    /\ cube_size = 3
    /\ EndedWithError
    /\ movements = <<Mv(<<"Right", 1>>, "Clockwise")>>
    /\ yielded[2] = <<"Err", <<"InvalidFace", "Q">>>>
    /\ Untouched

(* C26.  For every division count N >= 1 the FRU renderer reads from each  *)
(* displayed face grid (Up, Front, Right) only indices within 0..N*N-1:    *)
(* every read draw_faces makes on the cube it is given is inside the grid  *)
(* it reads, and the drawing does not panic.                               *)
FruReadsInsideGrids ==
    pc \in {"render", "drawn", "draw_panic"} =>
        /\ \A k \in DOMAIN ReadsMade(cube) :
               ReadsMade(cube)[k][2] \in 0..(cube_size * cube_size - 1)
        /\ pc # "draw_panic"

(* The position the facelet at position p of a grid of size d moves to     *)
(* under one clockwise quarter turn: (row r, column c) to (row c, column   *)
(* d-1-r).                                                                 *)
MovesTo(p, d) == (p % d) * d + (d - 1 - (p \div d))

(* C27 as stated.  For every N and every grid position p in 0..N*N-1, the  *)
(* entry of the rotation permutation table for p is the position that the  *)
(* facelet at p moves to under one clockwise quarter turn of the grid; for *)
(* N = 2 the entry for position 0 is position 1.                           *)
TableHoldsDestinations ==
    /\ \A p \in Cells(cube_size) : cube.face_transform[p] = MovesTo(p, cube_size)
    /\ cube_size = 2 => cube.face_transform[0] = 1

(* C27, amended.  For every N and every grid position p in 0..N*N-1, the   *)
(* entry of the rotation permutation table for p is the position whose     *)
(* facelet moves to p under one clockwise quarter turn of the grid (the    *)
(* entry for the position that p moves to is p); for N = 2 the entry for   *)
(* position 0 is position 2.  A clockwise face turn of apply fills each    *)
(* position p of the nominal grid from the entry for p.                    *)
TableHoldsSources ==
    /\ DOMAIN cube.face_transform = Cells(cube_size)
    /\ \A p \in Cells(cube_size) : cube.face_transform[MovesTo(p, cube_size)] = p
    /\ cube_size = 2 => cube.face_transform[0] = 2
    /\ ClockwiseFaceTurn =>
           \A p \in Cells(cube_size) :
               cube.faces[movement.target[1]][p] =
                   before.faces[movement.target[1]][cube.face_transform[p]]

(* F on a cube of size 2 whose Front grid had different labels at          *)
(* positions 1 and 2: position 0 now holds what position 2 held.           *)
TableHoldsSourcesWitness ==
    /\ ClockwiseFaceTurn
    /\ cube_size = 2
    /\ steps = 2
    /\ movement.target = <<"Front", 1>>
    /\ before.faces["Front"][1] # before.faces["Front"][2]
    /\ cube.faces["Front"][0] = before.faces["Front"][2]
    /\ cube.faces["Front"][1] = before.faces["Front"][0]

====
